---- MODULE Spec2Model ----
(***************************************************************************)
(* Model of the path-parameter parser (parsers/path-params-parser.ts) and  *)
(* of the express server generator (generators/typescript/                 *)
(* express-server.ts).                                                     *)
(*                                                                         *)
(* Strings on which the code works character by character (names, example *)
(* comments, path templates, HTTP methods) are sequences of one-character  *)
(* strings.  Strings the code only passes around or compares as a whole    *)
(* (error messages, endpoint names) are TLA+ strings.                      *)
(***************************************************************************)
EXTENDS Integers, Sequences, FiniteSets, TLC

VARIABLES parameter, result, api, source, stub, route, code, response, validated, sent, outcome

vars == <<parameter, result, api, source, stub, route, code, response, validated, sent, outcome>>

parserVars == <<parameter, result>>
serverVars == <<api, source, stub, route, code, response, validated, sent, outcome>>

(***************************************************************************)
(* Bounds of the model.                                                    *)
(***************************************************************************)
MaxProps == 3
MaxExamples == 2

(***************************************************************************)
(* JavaScript string primitives, on sequences of characters.               *)
(***************************************************************************)
\* The characters the model uses, in ascending UTF-16 code unit order.
CodeUnitOrder ==
    << "\n", " ", "\"", "$", "-", ".", "/", "0", "1", "2", "5", ":",
       "E", "G", "O", "P", "S", "T", "_",
       "a", "b", "c", "d", "e", "f", "g", "h", "i", "k", "l", "n", "o", "p",
       "q", "r", "s", "t", "u", "x", "y" >>

CharCode(c) == CHOOSE i \in 1..Len(CodeUnitOrder) : CodeUnitOrder[i] = c

Digits == {"0", "1", "2", "3", "4", "5", "6", "7", "8", "9"}

\* \w of a JavaScript regular expression without the u/i flags: [A-Za-z0-9_]
WordChars ==
    { "a", "b", "c", "d", "e", "f", "g", "h", "i", "j", "k", "l", "m",
      "n", "o", "p", "q", "r", "s", "t", "u", "v", "w", "x", "y", "z",
      "A", "B", "C", "D", "E", "F", "G", "H", "I", "J", "K", "L", "M",
      "N", "O", "P", "Q", "R", "S", "T", "U", "V", "W", "X", "Y", "Z", "_" }
    \cup Digits

WhiteSpace == {" ", "\t", "\r", "\n"}

\* a > b on strings: comparison by code units, a proper prefix is smaller
RECURSIVE StringGreater(_, _)
StringGreater(a, b) ==
    IF a = <<>> THEN FALSE
    ELSE IF b = <<>> THEN TRUE
    ELSE IF Head(a) # Head(b) THEN CharCode(Head(a)) > CharCode(Head(b))
    ELSE StringGreater(Tail(a), Tail(b))

\* s.split("\n")
RECURSIVE Split(_)
Split(s) ==
    IF \A i \in 1..Len(s) : s[i] # "\n" THEN << s >>
    ELSE LET k == CHOOSE i \in 1..Len(s) :
                      s[i] = "\n" /\ \A j \in 1..(i - 1) : s[j] # "\n"
         IN  << SubSeq(s, 1, k - 1) >> \o Split(SubSeq(s, k + 1, Len(s)))

RECURSIVE TrimStart(_)
TrimStart(s) ==
    IF s # <<>> /\ Head(s) \in WhiteSpace THEN TrimStart(Tail(s)) ELSE s

RECURSIVE TrimEnd(_)
TrimEnd(s) ==
    IF s # <<>> /\ s[Len(s)] \in WhiteSpace
    THEN TrimEnd(SubSeq(s, 1, Len(s) - 1)) ELSE s

\* s.trim()
Trim(s) == TrimEnd(TrimStart(s))

\* s.startsWith(c), s.endsWith(c) for a one-character c
StartsWith(s, c) == s # <<>> /\ Head(s) = c
EndsWith(s, c) == s # <<>> /\ s[Len(s)] = c

AllDigits(s) == \A i \in 1..Len(s) : s[i] \in Digits

(***************************************************************************)
(* JSON.parse on the scalar literals the model feeds it: true, false,      *)
(* null, strings without escapes, and numbers without exponent.  The       *)
(* example values of the model contain no backslash, bracket, brace or     *)
(* exponent, so every other text is a SyntaxError.                         *)
(* A JSON value is [type, str]; str is String(value).                      *)
(***************************************************************************)
TRUE_TEXT == << "t", "r", "u", "e" >>
FALSE_TEXT == << "f", "a", "l", "s", "e" >>
NULL_TEXT == << "n", "u", "l", "l" >>

JsonValue(t, s) == [type |-> t, str |-> s]

\* -?(0|[1-9][0-9]*)(\.[0-9]+)?
IsJsonInt(s) ==
    /\ s # <<>>
    /\ AllDigits(s)
    /\ (Len(s) > 1 => Head(s) # "0")

IsJsonNumber(s) ==
    LET u == IF StartsWith(s, "-") THEN Tail(s) ELSE s
        dots == { i \in 1..Len(u) : u[i] = "." }
    IN  IF dots = {} THEN IsJsonInt(u)
        ELSE /\ Cardinality(dots) = 1
             /\ LET k == CHOOSE i \in dots : TRUE
                IN  /\ IsJsonInt(SubSeq(u, 1, k - 1))
                    /\ k < Len(u)
                    /\ AllDigits(SubSeq(u, k + 1, Len(u)))

RECURSIVE StripTrailingZeros(_)
StripTrailingZeros(s) ==
    IF s # <<>> /\ s[Len(s)] = "0"
    THEN StripTrailingZeros(SubSeq(s, 1, Len(s) - 1)) ELSE s

\* String(Number(s)) for a JSON number literal s of a few digits
NumberToString(s) ==
    LET neg == StartsWith(s, "-")
        u == IF neg THEN Tail(s) ELSE s
        dots == { i \in 1..Len(u) : u[i] = "." }
        int == IF dots = {} THEN u
               ELSE SubSeq(u, 1, (CHOOSE i \in dots : TRUE) - 1)
        frac == IF dots = {} THEN <<>>
                ELSE StripTrailingZeros(
                         SubSeq(u, (CHOOSE i \in dots : TRUE) + 1, Len(u)))
        abs == IF frac = <<>> THEN int ELSE int \o << "." >> \o frac
    IN  IF neg /\ abs # << "0" >> THEN << "-" >> \o abs ELSE abs

IsJsonString(s) ==
    /\ Len(s) >= 2
    /\ s[1] = "\""
    /\ s[Len(s)] = "\""
    /\ \A i \in 2..(Len(s) - 1) : s[i] \notin {"\"", "\n", "\t", "\r"}

\* JSON.parse(s): [ok |-> FALSE] stands for the SyntaxError it throws
JSONparse(s) ==
    LET t == Trim(s)
    IN  IF t = TRUE_TEXT \/ t = FALSE_TEXT
        THEN [ok |-> TRUE, value |-> JsonValue("boolean", t)]
        ELSE IF t = NULL_TEXT
        THEN [ok |-> TRUE, value |-> JsonValue("null", t)]
        ELSE IF IsJsonString(t)
        THEN [ok |-> TRUE, value |-> JsonValue("string", SubSeq(t, 2, Len(t) - 1))]
        ELSE IF IsJsonNumber(t)
        THEN [ok |-> TRUE, value |-> JsonValue("number", NumberToString(t))]
        ELSE [ok |-> FALSE, value |-> JsonValue("null", NULL_TEXT)]

(***************************************************************************)
(* The path-parameter parser.                                              *)
(*                                                                         *)
(* A parameter declaration is [optional, isTypeLiteral, properties]; a     *)
(* property signature is [optional, name, typeResult, examples], where     *)
(* name is what getPropertyName returns, typeResult is what parseType and  *)
(* isPathParamTypeSafe answer for the property's type node, and examples   *)
(* are the comments of the @example tags of its JSDoc ([defined, text]:    *)
(* getComment() is undefined for a tag without text).                      *)
(***************************************************************************)
TypeKind ==
    [ STRING |-> "string", BOOLEAN |-> "boolean", INT32 |-> "int32",
      INT64 |-> "int64", FLOAT |-> "float", DOUBLE |-> "double" ]

NoValue == <<>>

ok(v) == [kind |-> "ok", value |-> v, error |-> [class |-> "", message |-> ""]]

err(e) == [kind |-> "err", value |-> NoValue, error |-> e]

\* an exception that leaves parsePathParams
thrown == [kind |-> "throw", value |-> NoValue, error |-> [class |-> "", message |-> ""]]

\* before the call
pending == [kind |-> "pending", value |-> NoValue, error |-> [class |-> "", message |-> ""]]

ParserError(m) == [class |-> "ParserError", message |-> m]

OptionalNotAllowedError(m) == [class |-> "OptionalNotAllowedError", message |-> m]

MsgParamOptional == "@pathParams parameter cannot be optional"
MsgPropertyOptional == "@pathParams property cannot be optional"
MsgExampleEmpty == "@pathParams example must not be empty"
MsgExampleMalformed == "@pathParams malformed example"
MsgExampleDuplicate == "@pathParams duplicate example name"
MsgExampleQuoted == "@pathParams string examples must be quoted"
MsgExampleParse == "could not parse @pathParams example"
MsgExampleType == "@pathParams type of example must match type of param"
MsgNameChars == "@pathParams property name may only contain alphanumeric, underscore and hyphen characters"
MsgNameEmpty == "@pathParams property name must not be empty"
MsgTypeUnsafe == "path parameter type may only be a URL-safe type, or an array of URL-safe types"
MsgParseType == "parseType failed"

\* /^[\w-]*$/.test(name)
NameRegexTest(name) ==
    \A i \in 1..Len(name) : name[i] \in WordChars \cup {"-"}

\* mutant: the empty-name check is missing
extractPathParamName_NoEmptyCheck(propertySignature) ==
    LET name == propertySignature.name
    IN  IF ~NameRegexTest(name) THEN err(ParserError(MsgNameChars))
        ELSE ok(name)

extractPathParamName(propertySignature) ==
    LET name == propertySignature.name
    IN  IF ~NameRegexTest(name) THEN err(ParserError(MsgNameChars))
        ELSE IF Len(name) = 0 THEN err(ParserError(MsgNameEmpty))
        ELSE ok(name)

extractPathParamType(propertySignature) ==
    LET typeResult == propertySignature.typeResult
    IN  IF typeResult.kind = "err" THEN err(ParserError(MsgParseType))
        ELSE IF ~typeResult.safe THEN err(ParserError(MsgTypeUnsafe))
        ELSE ok(typeResult.type)

\* /^-?\d+$/.test(value): test() converts its argument with String()
IntegerRegexTest(str) ==
    LET u == IF StartsWith(str, "-") THEN Tail(str) ELSE str
    IN  u # <<>> /\ AllDigits(u)

\* the local typeOf of extractPathParamExamples
typeOf(value) ==
    IF IntegerRegexTest(value.str) THEN "number"
    ELSE IF value.type = "boolean" THEN "boolean"
    ELSE "string"

spotTypesToJSTypesMap ==
    [ int32 |-> "number", int64 |-> "number", float |-> "number", double |-> "number" ]

\* spotTypesToJSTypesMap.get(type.kind) || type.kind
typeSpecified(type) ==
    IF type \in DOMAIN spotTypesToJSTypesMap
    THEN spotTypesToJSTypesMap[type] ELSE type

\* example?.split("\n")[i]?.trim(); <<>> also stands for undefined: both are falsy
ExampleLine(example, i) ==
    LET lines == Split(example.text)
    IN  IF i <= Len(lines) THEN Trim(lines[i]) ELSE <<>>

\* rawExamples.every(callback) from the i-th raw example on, in the state
\* st = [examples, exampleError]; every stops at the first falsy return.
RECURSIVE EveryExample(_, _, _, _)
RECURSIVE everyCallback(_, _, _, _, _, _)
RECURSIVE everyParsed(_, _, _, _, _, _)
EveryExample(rawExamples, type, i, st) ==
    IF i > Len(rawExamples) THEN st
    ELSE everyCallback(rawExamples, type, i, st,
             ExampleLine(rawExamples[i], 1), ExampleLine(rawExamples[i], 2))

\* the callback, up to JSON.parse
everyCallback(rawExamples, type, i, st, exampleName, exampleValue) ==
    IF exampleName = <<>> \/ exampleValue = <<>>
    THEN [st EXCEPT !.exampleError = err(ParserError(MsgExampleMalformed))]
    ELSE IF \E k \in 1..Len(st.examples) : st.examples[k].name = exampleName
    THEN [st EXCEPT !.exampleError = err(ParserError(MsgExampleDuplicate))]
    ELSE IF /\ type = TypeKind.STRING
            /\ (~StartsWith(exampleValue, "\"") \/ ~EndsWith(exampleValue, "\""))
    \* "return err(...)" inside the callback: the err object is truthy, so
    \* every goes on; nothing is pushed and exampleError stays unset
    THEN EveryExample(rawExamples, type, i + 1, st)
    ELSE everyParsed(rawExamples, type, i, st, exampleName, JSONparse(exampleValue))

\* the try/catch around JSON.parse
everyParsed(rawExamples, type, i, st, exampleName, parsed) ==
    IF parsed.ok
    THEN EveryExample(rawExamples, type, i + 1,
             [st EXCEPT !.examples = Append(@, [name |-> exampleName, value |-> parsed.value])])
    ELSE [st EXCEPT !.exampleError = err(ParserError(MsgExampleParse))]

\* what follows every: the pending error, then the type check of the examples
examplesChecked(st, type) ==
    IF st.exampleError.kind = "err"
    THEN [present |-> TRUE, res |-> st.exampleError]
    ELSE IF \E k \in 1..Len(st.examples) :
                typeOf(st.examples[k].value) # typeSpecified(type)
    THEN [present |-> TRUE, res |-> err(ParserError(MsgExampleType))]
    ELSE [present |-> TRUE, res |-> ok(st.examples)]

\* [present |-> FALSE] stands for the undefined the function returns when the
\* property has no @example tag
extractPathParamExamples(propertySignature, type) ==
    IF \E i \in 1..Len(propertySignature.examples) : ~propertySignature.examples[i].defined
    THEN [present |-> TRUE, res |-> err(ParserError(MsgExampleEmpty))]
    ELSE IF Len(propertySignature.examples) > 0
    THEN examplesChecked(
             EveryExample(propertySignature.examples, type, 1,
                 [examples |-> <<>>, exampleError |-> pending]),
             type)
    ELSE [present |-> FALSE, res |-> pending]

\* the end of extractPathParam, once the examples are extracted
pathParamWithExamples(name, type, examples) ==
    IF examples.present /\ examples.res.kind = "err" THEN examples.res
    ELSE IF examples.present
    THEN ok([name |-> name, type |-> type,
             hasExamples |-> TRUE, examples |-> examples.res.value])
    ELSE ok([name |-> name, type |-> type, hasExamples |-> FALSE, examples |-> <<>>])

\* extractPathParam once the type is extracted
pathParamWithType(propertySignature, name, typeResult) ==
    IF typeResult.kind = "err" THEN typeResult
    ELSE pathParamWithExamples(name, typeResult.value,
             extractPathParamExamples(propertySignature, typeResult.value))

\* extractPathParam once the name is extracted
pathParamWithName(propertySignature, nameResult) ==
    IF nameResult.kind = "err" THEN nameResult
    ELSE pathParamWithType(propertySignature, nameResult.value,
             extractPathParamType(propertySignature))

\* mutant: the question token is looked at after the name
extractPathParam_NameFirst(propertySignature) ==
    IF extractPathParamName(propertySignature).kind = "err"
    THEN extractPathParamName(propertySignature)
    ELSE IF propertySignature.optional
    THEN err(OptionalNotAllowedError(MsgPropertyOptional))
    ELSE pathParamWithName(propertySignature, extractPathParamName(propertySignature))

extractPathParam(propertySignature) ==
    IF propertySignature.optional
    THEN err(OptionalNotAllowedError(MsgPropertyOptional))
    ELSE pathParamWithName(propertySignature, extractPathParamName(propertySignature))

\* mutant: the comparison is the other way round
compareFn_Reversed(a, b) == IF StringGreater(a.name, b.name) THEN -1 ELSE 1

\* the comparator handed to sort
compareFn(a, b) == IF StringGreater(b.name, a.name) THEN -1 ELSE 1

\* one pass of an insertion sort: element goes before the elements that
\* compare greater than it
RECURSIVE Insert(_, _)
Insert(sorted, element) ==
    IF sorted # <<>> /\ compareFn(sorted[Len(sorted)], element) > 0
    THEN Append(Insert(SubSeq(sorted, 1, Len(sorted) - 1), element), sorted[Len(sorted)])
    ELSE Append(sorted, element)

RECURSIVE InsertionSort(_)
InsertionSort(array) ==
    IF array = <<>> THEN <<>>
    ELSE Insert(InsertionSort(SubSeq(array, 1, Len(array) - 1)), array[Len(array)])

IndexPermutations(n) ==
    { f \in [1..n -> 1..n] : \A i, j \in 1..n : i # j => f[i] # f[j] }

\* Array.prototype.sort with compareFn.  compareFn never answers 0, so it is a
\* consistent comparison only when the names are pairwise distinct; otherwise
\* the order is implementation-defined and every permutation is possible.
sortOutcomes(array) ==
    IF \A i, j \in 1..Len(array) : i # j => array[i].name # array[j].name
    THEN { InsertionSort(array) }
    ELSE { [i \in 1..Len(array) |-> array[f[i]]] : f \in IndexPermutations(Len(array)) }

\* the for loop of parsePathParams from the i-th property on
RECURSIVE extractAll(_, _, _)
RECURSIVE extractNext(_, _, _, _)
extractAll(properties, i, pathParams) ==
    IF i > Len(properties) THEN ok(pathParams)
    ELSE extractNext(properties, i, pathParams, extractPathParam(properties[i]))

\* the body of the loop once the property is extracted
extractNext(properties, i, pathParams, pathParamResult) ==
    IF pathParamResult.kind = "err" THEN pathParamResult
    ELSE extractAll(properties, i + 1, Append(pathParams, pathParamResult.value))

\* return ok(pathParams.sort(...)), or the error the loop returned
sortedResults(r) ==
    IF r.kind = "err" THEN { r }
    ELSE { ok(sorted) : sorted \in sortOutcomes(r.value) }

\* the results parsePathParams can return for a declaration that carries the
\* @pathParams decorator
parsePathParams(param) ==
    IF param.optional THEN { err(OptionalNotAllowedError(MsgParamOptional)) }
    ELSE IF ~param.isTypeLiteral THEN { thrown }
    ELSE sortedResults(extractAll(param.properties, 1, <<>>))

(***************************************************************************)
(* The declarations the parser is applied to.                              *)
(***************************************************************************)
SeqsUpTo(S, n) == UNION { [1..k -> S] : k \in 0..n }

TypeOk(kind) == [kind |-> "ok", type |-> kind, safe |-> TRUE]
TypeUnsafe == [kind |-> "ok", type |-> "object", safe |-> FALSE]
TypeErr == [kind |-> "err", type |-> "", safe |-> FALSE]

Property(optional, name, typeResult, examples) ==
    [optional |-> optional, name |-> name, typeResult |-> typeResult, examples |-> examples]

\* property names: a, b, c, ab, a-1, the empty name, a$ and "a b"
GoodNames == { <<"a">>, <<"b">>, <<"c">>, <<"a", "b">>, <<"a", "-", "1">> }
BadNames == { <<"a", "$">>, <<"a", " ", "b">> }
EmptyName == <<>>

\* properties without @example tags
PlainProperties ==
    { Property(FALSE, n, TypeOk(TypeKind.STRING), <<>>) : n \in GoodNames \cup BadNames \cup {EmptyName} }
    \cup { Property(TRUE, n, TypeOk(TypeKind.STRING), <<>>) : n \in { <<"a">>, <<"a", "$">>, EmptyName } }
    \cup { Property(o, <<"a">>, t, <<>>) : o \in BOOLEAN, t \in {TypeUnsafe, TypeErr} }

Comment(text) == [defined |-> TRUE, text |-> text]
NoComment == [defined |-> FALSE, text |-> <<>>]

ExampleNames == { <<"x">>, <<"y">> }

\* the second line of an example block
ExampleValues ==
    { << "\"", "2", "0", "2", "1", "-", "0", "1", "-", "0", "1", "\"" >>,  \* "2021-01-01"
      << "\"", "1", "\"" >>,                                              \* "1"
      << "1" >>,                                                          \* 1
      << "1", ".", "5" >>,                                                \* 1.5
      << " ", "-", "1", ".", "0" >>,                                      \*  -1.0
      << "t", "r", "u", "e" >>,                                           \* true
      << "a" >>,                                                          \* a
      << "\"", "a" >> }                                                   \* "a

ExampleComments ==
    { Comment(n \o << "\n" >> \o v) : n \in ExampleNames, v \in ExampleValues }
    \cup { NoComment,
           Comment(<< "x" >>),                         \* a name and no value line
           Comment(<< " ", "\n", "1" >>),              \* a blank name line
           Comment(<< "x", "\n", " " >>) }             \* a blank value line

ExampleTypes ==
    { TypeKind.STRING, TypeKind.BOOLEAN, TypeKind.INT32, TypeKind.INT64,
      TypeKind.FLOAT, TypeKind.DOUBLE }

\* properties with @example tags
ExampleProperties ==
    { Property(FALSE, <<"a">>, TypeOk(t), ex) :
        t \in ExampleTypes, ex \in SeqsUpTo(ExampleComments, MaxExamples) \ { <<>> } }

Declaration(optional, isTypeLiteral, properties) ==
    [optional |-> optional, isTypeLiteral |-> isTypeLiteral, properties |-> properties]

\* declarations of up to MaxProps properties without examples
PlainDeclarations ==
    { Declaration(o, TRUE, ps) : o \in BOOLEAN, ps \in SeqsUpTo(PlainProperties, MaxProps) }

\* declarations whose type is not a type literal
OtherDeclarations == { Declaration(o, FALSE, <<>>) : o \in BOOLEAN }

\* declarations of one property with examples
ExampleDeclarations == { Declaration(FALSE, TRUE, << p >>) : p \in ExampleProperties }

\* declarations of a property without examples and one with one example
MixedDeclarations ==
    { Declaration(FALSE, TRUE, << q, p >>) :
        q \in { Property(FALSE, <<"b">>, TypeOk(TypeKind.STRING), <<>>),
                Property(FALSE, <<"a", "$">>, TypeOk(TypeKind.STRING), <<>>) },
        p \in { e \in ExampleProperties : Len(e.examples) = 1 } }

NoApi == <<>>

\* no stub is generated yet
NoStub == [index |-> 0, source |-> <<>>]

ServerIdle ==
    /\ api = NoApi
    /\ source = <<>>
    /\ stub = NoStub
    /\ route = 0
    /\ code = <<>>
    /\ response = 0
    /\ validated = <<>>
    /\ sent = <<>>
    /\ outcome = "idle"

ParserInit ==
    /\ \/ parameter \in PlainDeclarations
       \/ parameter \in OtherDeclarations
       \/ parameter \in ExampleDeclarations
       \/ parameter \in MixedDeclarations
    /\ result = pending
    /\ ServerIdle

\* the call parsePathParams(parameter, typeTable, lociTable)
ParsePathParams ==
    /\ result.kind = "pending"
    /\ result' \in parsePathParams(parameter)
    /\ UNCHANGED <<parameter, serverVars>>

ParserNext == ParsePathParams

ParserSpec == ParserInit /\ [][ParserNext]_vars

(***************************************************************************)
(* The express server generator.                                           *)
(*                                                                         *)
(* An Api is [endpoints]: the entries of api.endpoints in iteration order, *)
(* each [name, endpoint].  An Endpoint is [method, path, headers,          *)
(* requestVoid, customErrorTypes]: path is a sequence of components        *)
(* [kind, content, name], headers the entries of endpoint.headers in       *)
(* iteration order, each [name, headerFieldName], requestVoid the answer   *)
(* of isVoid(api, endpoint.requestType), and customErrorTypes the set of   *)
(* status codes that are the keys of endpoint.customErrorTypes.            *)
(*                                                                         *)
(* The emitted source is a sequence of statements.  An expression is a     *)
(* path of names: <<x>> is the identifier x, <<x, y>> the access x.y.      *)
(***************************************************************************)
UpperCase ==
    << "A", "B", "C", "D", "E", "F", "G", "H", "I", "J", "K", "L", "M",
       "N", "O", "P", "Q", "R", "S", "T", "U", "V", "W", "X", "Y", "Z" >>

LowerCase ==
    << "a", "b", "c", "d", "e", "f", "g", "h", "i", "j", "k", "l", "m",
       "n", "o", "p", "q", "r", "s", "t", "u", "v", "w", "x", "y", "z" >>

\* s.toLowerCase()
ToLowerCase(s) ==
    [ i \in 1..Len(s) |->
        IF \E k \in 1..Len(UpperCase) : UpperCase[k] = s[i]
        THEN LowerCase[CHOOSE k \in 1..Len(UpperCase) : UpperCase[k] = s[i]]
        ELSE s[i] ]

\* strings.join("")
RECURSIVE Join(_)
Join(strings) ==
    IF strings = <<>> THEN <<>> ELSE Head(strings) \o Join(Tail(strings))

\* lodash flatten: one level
RECURSIVE Flatten(_)
Flatten(arrays) ==
    IF arrays = <<>> THEN <<>> ELSE Head(arrays) \o Flatten(Tail(arrays))

\* the keys of an object whose keys are integers: ascending order
RECURSIVE AscendingKeys(_)
AscendingKeys(S) ==
    IF S = {} THEN <<>>
    ELSE LET m == CHOOSE x \in S : \A y \in S : x <= y
         IN  << m >> \o AscendingKeys(S \ {m})

IMPORTED_CORS_NAME == "cors"
IMPORTED_EXPRESS_NAME == "express"
EXPRESS_APP_NAME == "app"
PORT_NAME == "PORT"

REQUEST_PARAMETER == << "r", "e", "q" >>
RESPONSE_PARAMETER == << "r", "e", "s" >>
PARSED_REQUEST_VARIABLE == << "r", "e", "q", "u", "e", "s", "t" >>
RESPONSE_VARIABLE == << "r", "e", "s", "p", "o", "n", "s", "e" >>

BODY == << "b", "o", "d", "y" >>
PARAMS == << "p", "a", "r", "a", "m", "s" >>
HEADERS == << "h", "e", "a", "d", "e", "r", "s" >>
STATUS == << "s", "t", "a", "t", "u", "s" >>
DATA == << "d", "a", "t", "a" >>

\* validatorName(endpointPropertyTypeName(endpointName, property, key)): the
\* name of the validator of one part of an endpoint
validatorName(endpointName, property, key, statusCode) ==
    [endpoint |-> endpointName, property |-> property, key |-> key, statusCode |-> statusCode]

\* validateStatement(subject, validator, message): the statement that checks
\* subject with the validator and aborts the handler with message when the
\* validator refuses it
validateStatement(subject, validator, message, messageArg) ==
    [op |-> "validate", subject |-> subject, validator |-> validator,
     message |-> message, messageArg |-> messageArg]

VariableStatement(name, initializer) ==
    [op |-> "const", name |-> name, initializer |-> initializer]

\* mutant: a dynamic component is rendered without the colon
pathTemplate_NoColon(endpoint) ==
    LET render(pathComponent) ==
            IF pathComponent.kind = "static" THEN pathComponent.content
            ELSE pathComponent.name
    IN  Join([ i \in 1..Len(endpoint.path) |-> render(endpoint.path[i]) ])

\* the first argument of the route registration
pathTemplate(endpoint) ==
    LET render(pathComponent) ==
            IF pathComponent.kind = "static" THEN pathComponent.content
            ELSE << ":" >> \o pathComponent.name
    IN  Join([ i \in 1..Len(endpoint.path) |-> render(endpoint.path[i]) ])

dynamicComponents(endpoint) ==
    SelectSeq(endpoint.path, LAMBDA pathComponent : pathComponent.kind = "dynamic")

responseStatus == << RESPONSE_VARIABLE, STATUS >>
responseData == << RESPONSE_VARIABLE, DATA >>
JSON == << "j", "s", "o", "n" >>

\* res.status(response.status); res.json(response.data);
sendStatusAndData ==
    << [op |-> "call", callee |-> << RESPONSE_PARAMETER, STATUS >>, args |-> << responseStatus >>],
       [op |-> "call", callee |-> << RESPONSE_PARAMETER, JSON >>, args |-> << responseData >>] >>

\* mutant: the branch of a custom error code does not return
customErrorBranch_NoReturn(endpointName, statusCode) ==
    [op |-> "if",
     test |-> [kind |-> "equals", left |-> responseStatus, code |-> statusCode],
     then |-> << validateStatement(responseData,
                     validatorName(endpointName, "customError", <<>>, statusCode),
                     "Invalid error response for status", statusCode) >>
              \o sendStatusAndData,
     else |-> <<>>]

\* if (response.status === statusCode) { validate; send; return; }
customErrorBranch(endpointName, statusCode) ==
    [op |-> "if",
     test |-> [kind |-> "equals", left |-> responseStatus, code |-> statusCode],
     then |-> << validateStatement(responseData,
                     validatorName(endpointName, "customError", <<>>, statusCode),
                     "Invalid error response for status", statusCode) >>
              \o sendStatusAndData
              \o << [op |-> "return"] >>,
     else |-> <<>>]

\* mutant: 300 counts as a success status
successOrDefaultBranch_Upto300(endpointName) ==
    [op |-> "if",
     test |-> [kind |-> "range", left |-> responseStatus, low |-> 200, high |-> 301],
     then |-> << validateStatement(responseData,
                     validatorName(endpointName, "response", <<>>, 0),
                     "Invalid successful response", 0) >>,
     else |-> << validateStatement(responseData,
                     validatorName(endpointName, "defaultError", <<>>, 0),
                     "Invalid error response", 0) >>]

\* if (response.status >= 200 && response.status < 300) { validate } else validate
successOrDefaultBranch(endpointName) ==
    [op |-> "if",
     test |-> [kind |-> "range", left |-> responseStatus, low |-> 200, high |-> 300],
     then |-> << validateStatement(responseData,
                     validatorName(endpointName, "response", <<>>, 0),
                     "Invalid successful response", 0) >>,
     else |-> << validateStatement(responseData,
                     validatorName(endpointName, "defaultError", <<>>, 0),
                     "Invalid error response", 0) >>]

generateValidateAndSendResponse(endpointName, endpoint) ==
    LET statusCodes == AscendingKeys(endpoint.customErrorTypes)
    IN
    [ i \in 1..Len(statusCodes) |-> customErrorBranch(endpointName, statusCodes[i]) ]
    \o << successOrDefaultBranch(endpointName) >>
    \o sendStatusAndData

identifierOf(named) == << named.name >>

\* mutant: the header arguments come before the path parameters
callArguments_HeadersFirst(endpoint) ==
    (IF endpoint.requestVoid THEN <<>> ELSE << << PARSED_REQUEST_VARIABLE >> >>)
    \o [ i \in 1..Len(endpoint.headers) |-> identifierOf(endpoint.headers[i]) ]
    \o [ i \in 1..Len(dynamicComponents(endpoint)) |-> identifierOf(dynamicComponents(endpoint)[i]) ]

\* the arguments of the call of the endpoint function
callArguments(endpoint) ==
    (IF endpoint.requestVoid THEN <<>> ELSE << << PARSED_REQUEST_VARIABLE >> >>)
    \o [ i \in 1..Len(dynamicComponents(endpoint)) |-> identifierOf(dynamicComponents(endpoint)[i]) ]
    \o [ i \in 1..Len(endpoint.headers) |-> identifierOf(endpoint.headers[i]) ]

\* the block of the arrow function generateEndpointRoute binds to the route
handlerBody(endpointName, endpoint) ==
    LET includeRequest == ~endpoint.requestVoid
        extractParam(pathComponent) ==
            << VariableStatement(pathComponent.name,
                   << REQUEST_PARAMETER, PARAMS, pathComponent.name >>),
               validateStatement(<< pathComponent.name >>,
                   validatorName(endpointName, "param", pathComponent.name, 0),
                   "Invalid path parameter", pathComponent.name) >>
        extractHeader(header) ==
            << VariableStatement(header.name,
                   << REQUEST_PARAMETER, HEADERS, header.headerFieldName >>),
               validateStatement(<< header.name >>,
                   validatorName(endpointName, "header", header.name, 0),
                   "Invalid header", header.headerFieldName) >>
    IN  (IF includeRequest
         THEN << VariableStatement(PARSED_REQUEST_VARIABLE, << REQUEST_PARAMETER, BODY >>),
                 validateStatement(<< PARSED_REQUEST_VARIABLE >>,
                     validatorName(endpointName, "request", <<>>, 0),
                     "Invalid request", 0) >>
         ELSE <<>>)
        \o Flatten([ i \in 1..Len(dynamicComponents(endpoint)) |-> extractParam(dynamicComponents(endpoint)[i]) ])
        \o Flatten([ i \in 1..Len(endpoint.headers) |-> extractHeader(endpoint.headers[i]) ])
        \o << [op |-> "await", name |-> RESPONSE_VARIABLE, callee |-> endpointName,
               args |-> callArguments(endpoint)] >>
        \o generateValidateAndSendResponse(endpointName, endpoint)

generateEndpointRoute(endpointName, endpoint) ==
    [op |-> "route",
     method |-> ToLowerCase(endpoint.method),
     path |-> pathTemplate(endpoint),
     body |-> handlerBody(endpointName, endpoint)]

generateExpressServerSource(a) ==
    LET importEndpoint(entry) == [op |-> "import", name |-> entry.name]
        endpointRoute(entry) == generateEndpointRoute(entry.name, entry.endpoint)
    IN  << [op |-> "import", name |-> IMPORTED_CORS_NAME],
           [op |-> "import", name |-> IMPORTED_EXPRESS_NAME],
           [op |-> "import", name |-> "validators"] >>
        \o [ i \in 1..Len(a.endpoints) |-> importEndpoint(a.endpoints[i]) ]
        \o << [op |-> "declare", name |-> PORT_NAME],
              [op |-> "declare", name |-> EXPRESS_APP_NAME],
              [op |-> "use", name |-> IMPORTED_CORS_NAME],
              [op |-> "use", name |-> "json"] >>
        \o [ i \in 1..Len(a.endpoints) |-> endpointRoute(a.endpoints[i]) ]
        \o << [op |-> "listen", name |-> PORT_NAME] >>

(***************************************************************************)
(* The stub of one endpoint.  The model keeps no IR types: a type is named *)
(* by the place of the endpoint it is taken from, [property, key,          *)
(* statusCode], the same places validatorName names validators for.  The   *)
(* import of the type names (getTypeNamesForEndpoint) depends on the IR    *)
(* types only and is left out.                                             *)
(***************************************************************************)
\* endpoint.requestType, pathComponent.type, header.type, endpoint.responseType,
\* endpoint.customErrorTypes[statusCode], endpoint.defaultErrorType
typeNode(property, key, statusCode) ==
    [property |-> property, key |-> key, statusCode |-> statusCode]

\* ts.createParameter(..., ts.createIdentifier(name), ..., type)
createParameter(name, type) == [name |-> name, type |-> type]

\* mutant: the header parameters come before the path parameters
stubParameters_HeadersFirst(endpoint) ==
    (IF endpoint.requestVoid THEN <<>>
     ELSE << createParameter(<< "r", "e", "q", "u", "e", "s", "t" >>,
                 typeNode("request", <<>>, 0)) >>)
    \o [ i \in 1..Len(endpoint.headers) |->
           createParameter(endpoint.headers[i].name,
               typeNode("header", endpoint.headers[i].name, 0)) ]
    \o [ i \in 1..Len(dynamicComponents(endpoint)) |->
           createParameter(dynamicComponents(endpoint)[i].name,
               typeNode("param", dynamicComponents(endpoint)[i].name, 0)) ]

\* the parameters of the stub
stubParameters(endpoint) ==
    (IF endpoint.requestVoid THEN <<>>
     ELSE << createParameter(<< "r", "e", "q", "u", "e", "s", "t" >>,
                 typeNode("request", <<>>, 0)) >>)
    \o [ i \in 1..Len(dynamicComponents(endpoint)) |->
           createParameter(dynamicComponents(endpoint)[i].name,
               typeNode("param", dynamicComponents(endpoint)[i].name, 0)) ]
    \o [ i \in 1..Len(endpoint.headers) |->
           createParameter(endpoint.headers[i].name,
               typeNode("header", endpoint.headers[i].name, 0)) ]

\* integerConstant(n) and NUMBER, the types of the status of a member
integerConstant(n) == [kind |-> "int-literal", value |-> n]
NUMBER == [kind |-> "number", value |-> 0]

\* objectType({status, data})
objectType(status, data) == [status |-> status, data |-> data]

\* the members of the union the stub promises
stubReturnType(endpoint) ==
    LET statusCodes == AscendingKeys(endpoint.customErrorTypes)
    IN  << objectType(integerConstant(200), typeNode("response", <<>>, 0)) >>
        \o [ i \in 1..Len(statusCodes) |->
               objectType(integerConstant(statusCodes[i]),
                   typeNode("customError", <<>>, statusCodes[i])) ]
        \o << objectType(NUMBER, typeNode("defaultError", <<>>, 0)) >>

\* export async function endpointName(parameters): Promise<union> { throw ... }
generateEndpointHandlerSource(a, endpointName, endpoint) ==
    [modifiers |-> << "export", "async" >>,
     name |-> endpointName,
     parameters |-> stubParameters(endpoint),
     returnType |-> stubReturnType(endpoint),
     body |-> << [op |-> "throw",
                  message |-> << "Endpoint ", endpointName, " is not yet implemented!" >>] >>]

(***************************************************************************)
(* The Apis the generator is applied to.                                   *)
(***************************************************************************)
MaxPath == 3
MaxHeaders == 2
MaxEndpoints == 2

Static(content) == [kind |-> "static", content |-> content, name |-> <<>>]
Dynamic(name) == [kind |-> "dynamic", content |-> <<>>, name |-> name]

USERS == << "/", "u", "s", "e", "r", "s", "/" >>
ID == << "i", "d" >>

PathComponents == { Static(USERS), Dynamic(ID), Dynamic(<< "n" >>) }

Paths ==
    { p \in SeqsUpTo(PathComponents, MaxPath) :
        \A i, j \in 1..Len(p) :
            (i # j /\ p[i].kind = "dynamic" /\ p[j].kind = "dynamic") => p[i].name # p[j].name }

HeaderPool ==
    { [name |-> << "h" >>, headerFieldName |-> << "x", "-", "h" >>],
      [name |-> << "k" >>, headerFieldName |-> << "x", "-", "k" >>] }

HeaderEntries ==
    { hs \in SeqsUpTo(HeaderPool, MaxHeaders) :
        \A i, j \in 1..Len(hs) : i # j => hs[i].name # hs[j].name }

CustomCodes == {201, 404}

GET == << "G", "E", "T" >>
POST == << "P", "O", "S", "T" >>

Endpoint(method, path, headers, requestVoid, customErrorTypes) ==
    [method |-> method, path |-> path, headers |-> headers,
     requestVoid |-> requestVoid, customErrorTypes |-> customErrorTypes]

RichEndpoints ==
    { Endpoint(GET, p, hs, v, cs) :
        p \in Paths, hs \in HeaderEntries, v \in BOOLEAN, cs \in SUBSET CustomCodes }

SimpleEndpoints ==
    { Endpoint(m, p, <<>>, TRUE, {}) :
        m \in {GET, POST},
        p \in { << Static(USERS) >>, << Static(USERS), Dynamic(ID) >>,
                << Dynamic(ID), Static(USERS) >> } }

EndpointNames == << "getUser", "createUser", "listUsers", "deleteUser" >>

Entries(endpoints) ==
    [endpoints |-> [ i \in 1..Len(endpoints) |->
                       [name |-> EndpointNames[i], endpoint |-> endpoints[i]] ]]

\* an Api of one endpoint
RichApis == { Entries(<< e >>) : e \in RichEndpoints }

\* Apis of up to MaxEndpoints endpoints
SimpleApis == { Entries(es) : es \in SeqsUpTo(SimpleEndpoints, MaxEndpoints) }

\* an Api of one endpoint whose dynamic component has one of the names the
\* parser lets through (GoodNames), the name of a local the handler binds
\* itself, or the name of a header
ParamNames ==
    GoodNames \cup { PARSED_REQUEST_VARIABLE, RESPONSE_VARIABLE, << "h" >>, << "i", "d", "2" >> }

NamedApis ==
    { Entries(<< Endpoint(GET, << Static(USERS), Dynamic(n) >>, hs, v, {}) >>) :
        n \in ParamNames, hs \in HeaderEntries, v \in BOOLEAN }

\* the status of the result the endpoint function resolves to
Statuses == {200, 201, 299, 300, 404, 500}

(***************************************************************************)
(* Generation, and one request served by an emitted handler.  code is what *)
(* is left to execute of the handler, response the status of the result of *)
(* the endpoint function (0 before the call), validated the validators     *)
(* applied so far with their answers, sent the calls made on res.          *)
(***************************************************************************)
ParserIdle ==
    /\ parameter = Declaration(FALSE, FALSE, <<>>)
    /\ result = pending

ServerInit ==
    /\ (api \in RichApis \/ api \in SimpleApis \/ api \in NamedApis)
    /\ source = <<>>
    /\ stub = NoStub
    /\ route = 0
    /\ code = <<>>
    /\ response = 0
    /\ validated = <<>>
    /\ sent = <<>>
    /\ outcome = "idle"
    /\ ParserIdle

\* generateExpressServerSource(api)
Generate ==
    /\ outcome = "idle"
    /\ source' = generateExpressServerSource(api)
    /\ outcome' = "generated"
    /\ UNCHANGED <<api, stub, route, code, response, validated, sent, parserVars>>

\* generateEndpointHandlerSource(api, endpointName, endpoint) for one endpoint
GenerateEndpointHandler ==
    /\ stub = NoStub
    /\ \E i \in 1..Len(api.endpoints) :
         stub' = [index |-> i,
                  source |-> generateEndpointHandlerSource(api, api.endpoints[i].name,
                                 api.endpoints[i].endpoint)]
    /\ UNCHANGED <<api, source, route, code, response, validated, sent, outcome, parserVars>>

\* a request arrives on one of the registered routes
HandleRequest ==
    /\ outcome = "generated"
    /\ \E i \in 1..Len(source) :
         /\ source[i].op = "route"
         /\ route' = i
         /\ code' = source[i].body
    /\ outcome' = "running"
    /\ UNCHANGED <<api, stub, source, response, validated, sent, parserVars>>

Running(op) == outcome = "running" /\ code # <<>> /\ Head(code).op = op

\* const name = initializer
ExecVariableStatement ==
    /\ Running("const")
    /\ code' = Tail(code)
    /\ UNCHANGED <<api, stub, source, route, response, validated, sent, outcome, parserVars>>

\* a validate statement: the validator answers; a refusal aborts the handler
ExecValidate ==
    /\ Running("validate")
    /\ \E valid \in BOOLEAN :
         /\ validated' = Append(validated, [validator |-> Head(code).validator, valid |-> valid])
         /\ code' = IF valid THEN Tail(code) ELSE <<>>
         /\ outcome' = IF valid THEN outcome ELSE "threw"
    /\ UNCHANGED <<api, stub, source, route, response, sent, parserVars>>

\* const response = await endpointName(...)
ExecAwait ==
    /\ Running("await")
    /\ response' \in Statuses
    /\ code' = Tail(code)
    /\ UNCHANGED <<api, stub, source, route, validated, sent, outcome, parserVars>>

TestHolds(test) ==
    IF test.kind = "equals" THEN response = test.code
    ELSE response >= test.low /\ response < test.high

\* if (test) { then } else { else }
ExecIf ==
    /\ Running("if")
    /\ code' = (IF TestHolds(Head(code).test) THEN Head(code).then ELSE Head(code).else)
               \o Tail(code)
    /\ UNCHANGED <<api, stub, source, route, response, validated, sent, outcome, parserVars>>

\* res.status(response.status), res.json(response.data)
ExecCall ==
    /\ Running("call")
    /\ sent' = Append(sent, Head(code).callee[2])
    /\ code' = Tail(code)
    /\ UNCHANGED <<api, stub, source, route, response, validated, outcome, parserVars>>

\* return
ExecReturn ==
    /\ Running("return")
    /\ code' = <<>>
    /\ outcome' = "returned"
    /\ UNCHANGED <<api, stub, source, route, response, validated, sent, parserVars>>

\* the end of the handler's block
Complete ==
    /\ outcome = "running"
    /\ code = <<>>
    /\ outcome' = "completed"
    /\ UNCHANGED <<api, stub, source, route, code, response, validated, sent, parserVars>>

ServerNext ==
    \/ Generate
    \/ GenerateEndpointHandler
    \/ HandleRequest
    \/ ExecVariableStatement
    \/ ExecValidate
    \/ ExecAwait
    \/ ExecIf
    \/ ExecCall
    \/ ExecReturn
    \/ Complete

ServerSpec == ServerInit /\ [][ServerNext]_vars

(***************************************************************************)
(* Claims about the parser.                                                *)
(***************************************************************************)
Called == result.kind # "pending"

Props == parameter.properties

\* the declaration gets as far as its properties
Examined == Called /\ ~parameter.optional /\ parameter.isTypeLiteral

AllowedNameChar(c) == c \in WordChars \/ c = "-"

\* a property without examples that breaks no rule
PlainValid(p) ==
    /\ ~p.optional
    /\ p.name # <<>>
    /\ \A k \in 1..Len(p.name) : AllowedNameChar(p.name[k])
    /\ p.typeResult.kind = "ok"
    /\ p.typeResult.safe
    /\ p.examples = <<>>

\* the i-th property is examined: every property before it passes
Reached(i) ==
    /\ Examined
    /\ i \in 1..Len(Props)
    /\ \A j \in 1..(i - 1) : PlainValid(Props[j])

\* a STRING property that breaks no rule before its examples are read
StringProperty(p) ==
    /\ ~p.optional
    /\ p.name = <<"a">>
    /\ p.typeResult = TypeOk(TypeKind.STRING)

WellFormedBlock(c) ==
    /\ c.defined
    /\ ExampleLine(c, 1) # <<>>
    /\ ExampleLine(c, 2) # <<>>

Quoted(v) == v[1] = "\"" /\ v[Len(v)] = "\""

\* C1: for a STRING property whose example blocks all have a non-empty name
\* and a non-empty value line, a first block whose value is not quoted makes
\* parsePathParams fail with "string examples must be quoted", and a single
\* block whose value is a quoted JSON string is accepted with the unquoted
\* string as its value.
C1_StringExamplesQuoted ==
    (/\ Reached(1)
     /\ StringProperty(Props[1])
     /\ Len(Props[1].examples) >= 1
     /\ \A k \in 1..Len(Props[1].examples) : WellFormedBlock(Props[1].examples[k]))
    => LET v == ExampleLine(Props[1].examples[1], 2)
       IN  /\ ~Quoted(v) => result = err(ParserError(MsgExampleQuoted))
           /\ (Quoted(v) /\ IsJsonString(v) /\ Len(Props[1].examples) = 1)
              => /\ result.kind = "ok"
                 /\ result.value[1].examples =
                      << [name |-> ExampleLine(Props[1].examples[1], 1),
                          value |-> JsonValue("string", SubSeq(v, 2, Len(v) - 1))] >>

\* the scalar category of a declared type
ScalarCategory(type) ==
    CASE type = "string" -> "string"
      [] type = "boolean" -> "boolean"
      [] type \in {"int32", "int64", "float", "double"} -> "number"

\* C2: on success every example's parsed value has the JSON type of the
\* declared type's scalar category, and a single well-formed example of a
\* STRING, BOOLEAN, FLOAT or DOUBLE property whose JSON type is that category
\* is not rejected for a type mismatch.
C2_ExampleTypeMatches ==
    /\ (Called /\ result.kind = "ok")
       => \A i \in 1..Len(result.value) :
            \A k \in 1..Len(result.value[i].examples) :
               result.value[i].examples[k].value.type = ScalarCategory(result.value[i].type)
    /\ (/\ Reached(1)
        /\ Len(Props[1].examples) = 1
        /\ WellFormedBlock(Props[1].examples[1])
        /\ Props[1].typeResult.type \in {"string", "boolean", "float", "double"}
        /\ JSONparse(ExampleLine(Props[1].examples[1], 2)).ok
        /\ JSONparse(ExampleLine(Props[1].examples[1], 2)).value.type
             = ScalarCategory(Props[1].typeResult.type))
       => result # err(ParserError(MsgExampleType))

DistinctNames(ps) == \A i, j \in 1..Len(ps) : i # j => ps[i].name # ps[j].name

\* C3: a declaration whose properties all pass validation and have pairwise
\* distinct names yields exactly one PathParam per property, in ascending
\* order of name.
C3_SortedByName ==
    /\ (Examined /\ DistinctNames(Props) /\ \A i \in 1..Len(Props) : PlainValid(Props[i]))
       => result.kind = "ok"
    /\ (Examined /\ DistinctNames(Props) /\ result.kind = "ok")
       => /\ Len(result.value) = Len(Props)
          /\ \A i \in 1..Len(Props) : \E k \in 1..Len(result.value) :
                result.value[k].name = Props[i].name
          /\ \A i, j \in 1..Len(result.value) :
                i < j => StringGreater(result.value[j].name, result.value[i].name)

\* witness of C3: properties b, a, c are returned as a, b, c
C3_Witness ==
    /\ Examined
    /\ Len(Props) = 3
    /\ Props[1].name = <<"b">> /\ Props[2].name = <<"a">> /\ Props[3].name = <<"c">>
    /\ result.kind = "ok"
    /\ result.value[1].name = <<"a">>
    /\ result.value[2].name = <<"b">>
    /\ result.value[3].name = <<"c">>

\* C4: an optional declaration fails with OptionalNotAllowedError whatever
\* its type and properties are; an optional property that is examined fails
\* with OptionalNotAllowedError whatever its name, type and examples are.
C4_OptionalNotAllowed ==
    /\ (Called /\ parameter.optional)
       => result = err(OptionalNotAllowedError(MsgParamOptional))
    /\ \A i \in 1..Len(Props) :
         (Reached(i) /\ Props[i].optional)
         => result = err(OptionalNotAllowedError(MsgPropertyOptional))

\* witness of C4: an optional property with a malformed name, after a valid
\* property, is refused as optional
C4_Witness ==
    /\ Reached(2)
    /\ Props[2].optional
    /\ Props[2].name = <<"a", "$">>
    /\ result = err(OptionalNotAllowedError(MsgPropertyOptional))

\* C5: for an examined property that is not optional, a name with a
\* character outside [A-Za-z0-9_-] fails with the malformed-characters error,
\* an empty name fails with the empty-name error, and any other name passes:
\* if nothing else fails, a PathParam with exactly that name is returned.
\* No PathParam with an empty or malformed name is returned.
C5_PropertyName ==
    /\ \A i \in 1..Len(Props) :
         (Reached(i) /\ ~Props[i].optional)
         => /\ (\E k \in 1..Len(Props[i].name) : ~AllowedNameChar(Props[i].name[k]))
               => result = err(ParserError(MsgNameChars))
            /\ Props[i].name = <<>> => result = err(ParserError(MsgNameEmpty))
    /\ (Examined /\ \A i \in 1..Len(Props) : PlainValid(Props[i]))
       => /\ result.kind = "ok"
          /\ \A i \in 1..Len(Props) : \E k \in 1..Len(result.value) :
                result.value[k].name = Props[i].name
    /\ (Called /\ result.kind = "ok")
       => \A k \in 1..Len(result.value) :
            /\ result.value[k].name # <<>>
            /\ \A c \in 1..Len(result.value[k].name) : AllowedNameChar(result.value[k].name[c])
            /\ \E i \in 1..Len(Props) : Props[i].name = result.value[k].name

\* witness of C5: an empty name after a valid property, and a name with a hyphen accepted
C5_Witness ==
    \/ /\ Reached(2)
       /\ ~Props[2].optional
       /\ Props[2].name = <<>>
       /\ result = err(ParserError(MsgNameEmpty))
    \/ /\ Reached(1)
       /\ Props[1].name = <<"a", "-", "1">>
       /\ result.kind = "ok"

\* C6: a property with two well-formed, parsable example blocks of the same
\* name makes parsePathParams fail with the duplicate-example error; on
\* success the example names of each PathParam are pairwise distinct.
C6_DuplicateExampleNames ==
    /\ (/\ Reached(1)
        /\ PlainValid([Props[1] EXCEPT !.examples = <<>>])
        /\ \A k \in 1..Len(Props[1].examples) :
              /\ WellFormedBlock(Props[1].examples[k])
              /\ JSONparse(ExampleLine(Props[1].examples[k], 2)).ok
        /\ \E k, l \in 1..Len(Props[1].examples) :
              k # l /\ ExampleLine(Props[1].examples[k], 1) = ExampleLine(Props[1].examples[l], 1))
       => result = err(ParserError(MsgExampleDuplicate))
    /\ (Called /\ result.kind = "ok")
       => \A i \in 1..Len(result.value) :
            \A k, l \in 1..Len(result.value[i].examples) :
               k # l => result.value[i].examples[k].name # result.value[i].examples[l].name

(***************************************************************************)
(* Claims about how the parser reports failures.                           *)
(***************************************************************************)
\* the name, the type or the question token of a property breaks a rule
PropertyFails(p) == ~PlainValid([p EXCEPT !.examples = <<>>])

\* C12: parsePathParams never ends with an exception: it returns ok or err;
\* an optional declaration, a declaration whose type is not a type literal,
\* and an examined property that is optional, badly named or of a failed or
\* unsafe type each make it return err; an err result carries no PathParam
\* sequence.
C12_FailuresReturned ==
    Called
    => /\ result.kind \in {"ok", "err"}
       /\ (parameter.optional \/ ~parameter.isTypeLiteral) => result.kind = "err"
       /\ \A i \in 1..Len(Props) :
            (Reached(i) /\ PropertyFails(Props[i])) => result.kind = "err"
       /\ result.kind = "err" => result.value = NoValue

(***************************************************************************)
(* Claims about the emitted server.                                        *)
(***************************************************************************)
Generated == outcome # "idle"

Routes == SelectSeq(source, LAMBDA statement : statement.op = "route")

\* the endpoint whose handler serves the request
ServedEntry == api.endpoints[Cardinality({ k \in 1..route : source[k].op = "route" })]

Terminated == outcome \in {"returned", "completed", "threw"}

\* the validators applied to the result of the endpoint function
ResponseValidations ==
    SelectSeq(validated,
        LAMBDA v : v.validator.property \in {"customError", "response", "defaultError"})

SentPrefixes == { <<>>, << STATUS >>, << STATUS, JSON >> }

\* C7: when the result's status is a declared custom-error code c, the only
\* validator applied to the result is the one of c; if it accepts, status and
\* payload are emitted once and the handler returns; if it refuses, nothing
\* is emitted.  The success and default-error validators are never applied.
C7_CustomErrorBranch ==
    (route # 0 /\ response \in ServedEntry.endpoint.customErrorTypes)
    => /\ \A k \in 1..Len(ResponseValidations) :
             ResponseValidations[k].validator =
                 validatorName(ServedEntry.name, "customError", <<>>, response)
       /\ Len(ResponseValidations) <= 1
       /\ sent \in SentPrefixes
       /\ sent # <<>> => (Len(ResponseValidations) = 1 /\ ResponseValidations[1].valid)
       /\ Terminated
          => /\ Len(ResponseValidations) = 1
             /\ IF ResponseValidations[1].valid
                THEN sent = << STATUS, JSON >> /\ outcome = "returned"
                ELSE sent = <<>> /\ outcome = "threw"

\* witness of C7: a result with the custom-error status 404 was validated, sent, and the handler returned
C7_Witness ==
    /\ outcome = "returned"
    /\ response = 404
    /\ 404 \in ServedEntry.endpoint.customErrorTypes
    /\ Len(ResponseValidations) = 1
    /\ sent = << STATUS, JSON >>

\* the j-th dynamic component of a path
NthDynamic(path, j) ==
    path[CHOOSE i \in 1..Len(path) :
            /\ path[i].kind = "dynamic"
            /\ Cardinality({ h \in 1..(i - 1) : path[h].kind = "dynamic" }) = j - 1]

HandlerInOrder(name, endpoint, body) ==
    LET nReq == IF endpoint.requestVoid THEN 0 ELSE 1
        nDyn == Cardinality({ i \in 1..Len(endpoint.path) : endpoint.path[i].kind = "dynamic" })
        nHdr == Len(endpoint.headers)
        callAt == 2 * (nReq + nDyn + nHdr) + 1
    IN  /\ Len(body) > callAt
        /\ \A k \in 1..Len(body) :
             /\ k < callAt => body[k].op \in {"const", "validate"}
             /\ k > callAt => body[k].op \in {"if", "call"}
        /\ nReq = 1
           => /\ body[1] = VariableStatement(PARSED_REQUEST_VARIABLE, << REQUEST_PARAMETER, BODY >>)
              /\ body[2].subject = << PARSED_REQUEST_VARIABLE >>
              /\ body[2].validator = validatorName(name, "request", <<>>, 0)
              /\ body[2].message = "Invalid request"
        /\ \A k \in 1..(callAt - 1) :
             (body[k].op = "validate" /\ body[k].validator.property = "request") => nReq = 1
        /\ \A j \in 1..nDyn :
             LET n == NthDynamic(endpoint.path, j).name
                 at == 2 * nReq + 2 * j - 1
             IN  /\ body[at] = VariableStatement(n, << REQUEST_PARAMETER, PARAMS, n >>)
                 /\ body[at + 1].subject = << n >>
                 /\ body[at + 1].validator = validatorName(name, "param", n, 0)
                 /\ body[at + 1].message = "Invalid path parameter"
                 /\ body[at + 1].messageArg = n
        /\ \A j \in 1..nHdr :
             LET h == endpoint.headers[j]
                 at == 2 * (nReq + nDyn) + 2 * j - 1
             IN  /\ body[at] = VariableStatement(h.name, << REQUEST_PARAMETER, HEADERS, h.headerFieldName >>)
                 /\ body[at + 1].subject = << h.name >>
                 /\ body[at + 1].validator = validatorName(name, "header", h.name, 0)
                 /\ body[at + 1].message = "Invalid header"
                 /\ body[at + 1].messageArg = h.headerFieldName
        /\ body[callAt].op = "await"
        /\ body[callAt].callee = name
        /\ Len(body[callAt].args) = nReq + nDyn + nHdr
        /\ nReq = 1 => body[callAt].args[1] = << PARSED_REQUEST_VARIABLE >>
        /\ \A j \in 1..nDyn :
             body[callAt].args[nReq + j] = << NthDynamic(endpoint.path, j).name >>
        /\ \A j \in 1..nHdr :
             body[callAt].args[nReq + nDyn + j] = << endpoint.headers[j].name >>

\* C8: every emitted handler extracts and validates the request body (iff
\* the request type is not void), then each dynamic path component in path
\* order, then each header in declaration order, and then calls the endpoint
\* function once, awaited, with the request body (iff not void), the path
\* parameters in path order and the headers in declaration order; only the
\* response branching follows the call.
C8_HandlerOrder ==
    Generated
    => /\ Len(Routes) = Len(api.endpoints)
       /\ \A e \in 1..Len(Routes) :
            HandlerInOrder(api.endpoints[e].name, api.endpoints[e].endpoint, Routes[e].body)

\* witness of C8: a handler with a request body, two path parameters and two
\* headers has reached the call of the endpoint function
C8_Witness ==
    /\ route # 0
    /\ ~ServedEntry.endpoint.requestVoid
    /\ Len(ServedEntry.endpoint.headers) = 2
    /\ Len(ServedEntry.endpoint.path) = 3
    /\ ServedEntry.endpoint.path[1].kind = "dynamic"
    /\ ServedEntry.endpoint.path[3].kind = "dynamic"
    /\ Len(validated) = 5
    /\ code # <<>>
    /\ Head(code).op = "await"

\* C9: when the result's status is no declared custom-error code, exactly
\* one validator is applied to the result: the one of the response type if
\* 200 <= status < 300, the one of the default error type otherwise; if it
\* accepts, status and payload are emitted exactly once.
C9_SuccessOrDefault ==
    (route # 0 /\ response # 0 /\ response \notin ServedEntry.endpoint.customErrorTypes)
    => /\ \A k \in 1..Len(ResponseValidations) :
             ResponseValidations[k].validator =
                 validatorName(ServedEntry.name,
                     IF response >= 200 /\ response < 300 THEN "response" ELSE "defaultError",
                     <<>>, 0)
       /\ Len(ResponseValidations) <= 1
       /\ sent \in SentPrefixes
       /\ sent # <<>> => (Len(ResponseValidations) = 1 /\ ResponseValidations[1].valid)
       /\ Terminated
          => /\ Len(ResponseValidations) = 1
             /\ IF ResponseValidations[1].valid
                THEN sent = << STATUS, JSON >> /\ outcome = "completed"
                ELSE sent = <<>> /\ outcome = "threw"

\* witness of C9: status 300, not a custom-error code, went through the
\* default-error validator and was sent
C9_Witness ==
    /\ outcome = "completed"
    /\ response = 300
    /\ ServedEntry.endpoint.customErrorTypes # {}
    /\ ResponseValidations[1].validator.property = "defaultError"
    /\ sent = << STATUS, JSON >>

\* the lower-case letter of an upper-case letter, any other character itself
LowerOf(c) ==
    IF \E k \in 1..26 : UpperCase[k] = c
    THEN LowerCase[CHOOSE k \in 1..26 : UpperCase[k] = c]
    ELSE c

\* the template of the first i components of a path
RECURSIVE TemplateUpTo(_, _)
TemplateUpTo(path, i) ==
    IF i = 0 THEN <<>>
    ELSE TemplateUpTo(path, i - 1)
         \o (IF path[i].kind = "static" THEN path[i].content ELSE << ":" >> \o path[i].name)

\* C10: the emitted source holds exactly one route registration per
\* endpoint, in the order of the endpoints, each bound to the lower-cased
\* method, to the handler of that endpoint and to the path template: static
\* content verbatim, a dynamic component as ':' and its name.
C10_RoutePerEndpoint ==
    Generated
    => /\ Len(Routes) = Len(api.endpoints)
       /\ \A e \in 1..Len(Routes) :
            LET endpoint == api.endpoints[e].endpoint
            IN  /\ Len(Routes[e].method) = Len(endpoint.method)
                /\ \A k \in 1..Len(endpoint.method) :
                      Routes[e].method[k] = LowerOf(endpoint.method[k])
                /\ Routes[e].path = TemplateUpTo(endpoint.path, Len(endpoint.path))
                /\ \E k \in 1..Len(Routes[e].body) :
                      /\ Routes[e].body[k].op = "await"
                      /\ Routes[e].body[k].callee = api.endpoints[e].name
       /\ \A i, j \in 1..Len(source) :
            (i < j /\ source[i].op = "route" /\ source[j].op # "route")
            => source[j].op = "listen"

\* witness of C10: GET [static("/users/"), dynamic("id")] is registered second as get "/users/:id"
C10_Witness ==
    /\ Generated
    /\ Len(api.endpoints) = 2
    /\ api.endpoints[1].endpoint.method = POST
    /\ api.endpoints[2].endpoint.method = GET
    /\ api.endpoints[2].endpoint.path = << Static(USERS), Dynamic(ID) >>
    /\ Routes[2].method = << "g", "e", "t" >>
    /\ Routes[2].path = << "/", "u", "s", "e", "r", "s", "/", ":", "i", "d" >>

(***************************************************************************)
(* Claims about the emitted handler as target source.                      *)
(***************************************************************************)
\* the names a handler binds with const, in the order of the statements
LocalBindings(body) ==
    LET binding == SelectSeq(body, LAMBDA statement : statement.op \in {"const", "await"})
    IN  [ k \in 1..Len(binding) |-> binding[k].name ]

\* an identifier of the target language: a letter, _ or $, then letters,
\* digits, _ or $ (no reserved word is among the names of the model)
IsIdentifier(name) ==
    /\ name # <<>>
    /\ name[1] \in (WordChars \ Digits) \cup {"$"}
    /\ \A k \in 1..Len(name) : name[k] \in WordChars \cup {"$"}

\* the name invariant of a PathParam: non-empty and matching ^[\w-]*$
NameInvariant(name) ==
    /\ name # <<>>
    /\ \A k \in 1..Len(name) : AllowedNameChar(name[k])

\* C13: in the handler of every endpoint whose dynamic component names are
\* non-empty and made of word characters and hyphens, every name bound as a
\* local constant is a legal identifier and no two bindings share a name.
C13_WellFormedHandler ==
    Generated
    => \A e \in 1..Len(Routes) :
         (\A i \in 1..Len(api.endpoints[e].endpoint.path) :
             api.endpoints[e].endpoint.path[i].kind = "dynamic"
             => NameInvariant(api.endpoints[e].endpoint.path[i].name))
         => LET names == LocalBindings(Routes[e].body)
            IN  /\ \A k \in 1..Len(names) : IsIdentifier(names[k])
                /\ \A k, l \in 1..Len(names) : k # l => names[k] # names[l]

(***************************************************************************)
(* Claims about the stub.                                                  *)
(***************************************************************************)
\* the endpoint the stub was generated for
StubEntry == api.endpoints[stub.index]

\* C11: the stub of an endpoint has as parameters the request body (iff the
\* request type is not void), then one parameter per dynamic path component
\* in path order, then one per header in declaration order, and nothing
\* else; with a request body and no dynamic component or header that is
\* exactly one parameter; its body is a single throw whose message names the
\* endpoint.
C11_StubParameters ==
    stub # NoStub
    => LET endpoint == StubEntry.endpoint
           parameters == stub.source.parameters
           nReq == IF endpoint.requestVoid THEN 0 ELSE 1
           nDyn == Cardinality({ i \in 1..Len(endpoint.path) : endpoint.path[i].kind = "dynamic" })
           nHdr == Len(endpoint.headers)
       IN  /\ Len(parameters) = nReq + nDyn + nHdr
           /\ nReq = 1 => parameters[1].type.property = "request"
           /\ \A j \in 1..nDyn :
                /\ parameters[nReq + j].name = NthDynamic(endpoint.path, j).name
                /\ parameters[nReq + j].type.property = "param"
                /\ parameters[nReq + j].type.key = NthDynamic(endpoint.path, j).name
           /\ \A j \in 1..nHdr :
                /\ parameters[nReq + nDyn + j].name = endpoint.headers[j].name
                /\ parameters[nReq + nDyn + j].type.property = "header"
                /\ parameters[nReq + nDyn + j].type.key = endpoint.headers[j].name
           /\ (nReq = 1 /\ nDyn = 0 /\ nHdr = 0) => Len(parameters) = 1
           /\ Len(stub.source.body) = 1
           /\ stub.source.body[1].op = "throw"
           /\ stub.source.body[1].message[2] = StubEntry.name
           /\ stub.source.name = StubEntry.name

\* witness of C11: the stub of an endpoint with a request body, two dynamic
\* components and two headers has five parameters, the headers last
C11_Witness ==
    /\ stub # NoStub
    /\ ~StubEntry.endpoint.requestVoid
    /\ Len(StubEntry.endpoint.path) = 3
    /\ StubEntry.endpoint.path[1] = Dynamic(<< "n" >>)
    /\ StubEntry.endpoint.path[3] = Dynamic(ID)
    /\ Len(StubEntry.endpoint.headers) = 2
    /\ Len(stub.source.parameters) = 5
    /\ stub.source.parameters[2].name = << "n" >>
    /\ stub.source.parameters[3].name = ID
    /\ stub.source.parameters[5].name = StubEntry.endpoint.headers[2].name

\* the payload type the return union of a stub gives a result of status s:
\* the data of the member whose status is the constant s, else the data of
\* the member whose status is any number
DeclaredData(returnType, s) ==
    IF \E m \in 1..Len(returnType) : returnType[m].status = integerConstant(s)
    THEN returnType[CHOOSE m \in 1..Len(returnType) :
                        returnType[m].status = integerConstant(s)].data
    ELSE returnType[CHOOSE m \in 1..Len(returnType) : returnType[m].status = NUMBER].data

\* the type a validator of the handler checks
ValidatedType(validator) ==
    typeNode(validator.property, validator.key, validator.statusCode)

\* C14: for the endpoint a request is served by, every validator the handler
\* applies to a result of status s checks the payload type the stub's return
\* union declares for status s: the response type for 200, the custom type
\* for a custom-error code, the default error type for any other status.
C14_StubAgreesWithHandler ==
    (route # 0 /\ response # 0 /\ stub # NoStub /\ StubEntry = ServedEntry)
    => \A k \in 1..Len(ResponseValidations) :
         ValidatedType(ResponseValidations[k].validator)
           = DeclaredData(stub.source.returnType, response)

====
